---- MODULE Spec2Model ----
(***************************************************************************)
(* A model of the S3 client of src/src/s3.ts (the fetch-based revision,    *)
(* lines 286-715): the streamed put (#putStream) with its multipart calls, *)
(* the paged list, the direct put, the transport step #request and the     *)
(* header canonicalisation used for signing.                               *)
(*                                                                         *)
(* Bytes are modelled by their offset in the input stream (1, 2, 3, ...),  *)
(* so that a lost, duplicated or reordered byte is visible; 0 is the zero  *)
(* byte Buffer.concat pads with.  Sizes are scaled: MIN_CHUNK_SIZE stands  *)
(* for the 5 MiB threshold of the source.                                  *)
(***************************************************************************)
EXTENDS Integers, Sequences, FiniteSets, TLC

\* The part-size threshold (5242880 in the source), scaled down.
MIN_CHUNK_SIZE == 8

\* Bounds of the model: the bytes one stream delivers, and how many of its
\* chunks are empty.
MaxTotal == 28
MaxEmpty == 1

\* The chunk lengths the input stream may deliver.
ChunkSizes ==
    {0, 1, MIN_CHUNK_SIZE, (7 * MIN_CHUNK_SIZE) \div 2}

\* JavaScript text values are sequences of tokens; null and undefined are
\* the texts a template string renders them as.
Null == <<"null">>
Undefined == <<"undefined">>
EmptyString == <<>>

\* The HTTP statuses the service answers with.
Statuses == {200, 204, 301, 304, 307, 404, 412, 500}

VARIABLES
    pc,        \* where the operation under way stands (#putStream: read, start, part,
               \* lastpart, commit, abort, put, done)
    store,     \* #putStream's `store`: the chunks buffered
    length,    \* #putStream's `length`
    uploadId,  \* #putStream's `uploadId`
    parts,     \* #putStream's `parts`
    err,       \* the error caught by #putStream's catch
    result,    \* how put settled
    hdrs,      \* the header mapping the caller passed to put
    given,     \* that mapping as it was when put was called
    calls,     \* every network call issued, with its outcome
    total,     \* bytes the input stream has delivered
    nEmpty,    \* empty chunks the input stream has delivered
    maxChunk,  \* the longest chunk the input stream has delivered
    listPrefix, \* list's `prefix`
    options,   \* list's `options`
    continuation, \* list's `continuation`
    listItems, \* list's `items`, those not yet yielded
    yielded,   \* what list has yielded
    pages,     \* the service's listing, page by page
    bucket,    \* what the service stores: none or one object, under each key for copy
    exchanges, \* #request: what fetch was answered, hop by hop, and how it settled
    canonical  \* what canonicalizeHeaders returned

\* The locals of #putStream and the history of its input stream.
streamVars == <<store, length, uploadId, parts, err, total, nEmpty, maxChunk>>

\* The locals of list and the listing it reads.
listVars == <<listPrefix, options, continuation, listItems, yielded, pages>>

vars == <<pc, result, hdrs, given, calls, streamVars, listVars, bucket,
          exchanges, canonical>>

\* What no step of #putStream changes.
outside == <<given, listVars, bucket, exchanges, canonical>>

----------------------------------------------------------------------------
\* JavaScript values

\* `if (uploadId)`: false for null, undefined and the empty string.
Truthy(x) == x \notin {Null, Undefined, EmptyString}

\* The left operand of `??` is kept unless it is null or undefined.
Nullish(x) == x \in {Null, Undefined}

\* An ETag in its wire form, between double quotes.
Quote(e) == <<"\"">> \o e \o <<"\"">>

IsQuoted(v) == Len(v) >= 2 /\ v[1] = "\"" /\ v[Len(v)] = "\""

\* JSON.parse of a header value: null parses (as the text null) to null, a
\* quoted string to its content; anything else throws a SyntaxError.
JSONparse(v) ==
    IF v = Null THEN [ok |-> TRUE, val |-> Null]
    ELSE IF IsQuoted(v) THEN [ok |-> TRUE, val |-> SubSeq(v, 2, Len(v) - 1)]
    ELSE [ok |-> FALSE, val |-> <<"SyntaxError">>]

\* The buffers joined last first.
RECURSIVE FlattenReversed(_)
FlattenReversed(list) ==
    IF list = <<>> THEN <<>> ELSE FlattenReversed(Tail(list)) \o Head(list)

RECURSIVE Flatten(_)
Flatten(list) ==
    IF list = <<>> THEN <<>> ELSE Head(list) \o Flatten(Tail(list))

\* Buffer.concat(list, totalLength): the buffers joined, cut or zero-padded
\* to totalLength.
BufferConcat(list, len) ==
    LET f == Flatten(list)
    IN  [i \in 1..len |-> IF i <= Len(f) THEN f[i] ELSE 0]

----------------------------------------------------------------------------
\* Header mappings (Record<string, string>): functions from names to texts.

NoHeaders == [n \in {} |-> EmptyString]

Has(h, n) == n \in DOMAIN h

\* hdrs[n] = v
SetHdr(h, n, v) == [x \in DOMAIN h \cup {n} |-> IF x = n THEN v ELSE h[x]]

\* hdrs[n] = hdrs[n] ?? v
DefaultHdr(h, n, v) == IF Has(h, n) THEN h ELSE SetHdr(h, n, v)

\* hdrs[n] ?? ''
HdrOrEmpty(h, n) == IF Has(h, n) THEN h[n] ELSE EmptyString

\* { ...a, ...b }
Spread(a, b) ==
    [x \in DOMAIN a \cup DOMAIN b |-> IF x \in DOMAIN b THEN b[x] ELSE a[x]]

----------------------------------------------------------------------------
\* URLs: a path and the search parameters in their order.

AWSParams ==
    {"acl", "lifecycle", "location", "logging", "notification", "partNumber",
     "policy", "requestPayment", "uploadId", "uploads", "versionId",
     "versioning", "versions", "website"}

\* #url(filename)
Url(name) == [path |-> name, query |-> <<>>]

RECURSIVE Without(_, _)
Without(q, k) ==
    IF q = <<>> THEN <<>>
    ELSE IF Head(q)[1] = k THEN Without(Tail(q), k)
    ELSE <<Head(q)>> \o Without(Tail(q), k)

HasParam(q, k) == \E i \in DOMAIN q : q[i][1] = k

\* url.searchParams.set(k, v): the first pair named k takes the value and
\* the others of that name go; a new name is appended.
ParamSet(url, k, v) ==
    IF HasParam(url.query, k)
    THEN LET i == CHOOSE j \in DOMAIN url.query :
                    /\ url.query[j][1] = k
                    /\ \A m \in 1..(j - 1) : url.query[m][1] # k
         IN  [url EXCEPT !.query =
                  SubSeq(url.query, 1, i - 1) \o <<(<<k, v>>)>>
                  \o Without(SubSeq(url.query, i + 1, Len(url.query)), k)]
    ELSE [url EXCEPT !.query = Append(url.query, <<k, v>>)]

\* url.searchParams.get(k), null when there is none
ParamGet(url, k) ==
    IF HasParam(url.query, k)
    THEN url.query[CHOOSE j \in DOMAIN url.query :
                      /\ url.query[j][1] = k
                      /\ \A m \in 1..(j - 1) : url.query[m][1] # k][2]
    ELSE Null

\* `${num}`
NumText(n) == <<"#", n>>

----------------------------------------------------------------------------
\* Text at the level of characters, for what the code compares or sorts.

Lowers == <<"a", "b", "c", "d", "e", "f", "g", "h", "i", "j", "k", "l", "m",
            "n", "o", "p", "q", "r", "s", "t", "u", "v", "w", "x", "y", "z">>
Uppers == <<"A", "B", "C", "D", "E", "F", "G", "H", "I", "J", "K", "L", "M",
            "N", "O", "P", "Q", "R", "S", "T", "U", "V", "W", "X", "Y", "Z">>
Digits == <<"0", "1", "2", "3", "4", "5", "6", "7", "8", "9">>

IndexIn(seq, ch) == CHOOSE i \in DOMAIN seq : seq[i] = ch
IsIn(seq, ch) == \E i \in DOMAIN seq : seq[i] = ch

\* The UTF-16 code unit of a character.
Ord(ch) ==
    IF IsIn(Lowers, ch) THEN 96 + IndexIn(Lowers, ch)
    ELSE IF IsIn(Uppers, ch) THEN 64 + IndexIn(Uppers, ch)
    ELSE IF IsIn(Digits, ch) THEN 47 + IndexIn(Digits, ch)
    ELSE CASE ch = "-" -> 45
           [] ch = "." -> 46
           [] ch = "/" -> 47
           [] ch = ":" -> 58
           [] ch = "*" -> 42
           [] ch = "\"" -> 34
           [] ch = "{" -> 123
           [] ch = "}" -> 125
           [] OTHER -> 32

\* String.prototype.toLowerCase
ToLowerCase(t) ==
    [i \in DOMAIN t |->
        IF IsIn(Uppers, t[i]) THEN Lowers[IndexIn(Uppers, t[i])] ELSE t[i]]

\* String.prototype.startsWith
StartsWith(t, prefix) ==
    Len(t) >= Len(prefix) /\ SubSeq(t, 1, Len(prefix)) = prefix

\* a < b as JavaScript compares strings: by code unit, a proper prefix first.
RECURSIVE TextLess(_, _)
TextLess(a, b) ==
    IF b = <<>> THEN FALSE
    ELSE IF a = <<>> THEN TRUE
    ELSE IF Ord(Head(a)) # Ord(Head(b)) THEN Ord(Head(a)) < Ord(Head(b))
    ELSE TextLess(Tail(a), Tail(b))

\* The characters of the header names the model uses.
Chars(n) ==
    CASE n = "Date" -> <<"D", "a", "t", "e">>
      [] n = "Host" -> <<"H", "o", "s", "t">>
      [] n = "Content-Length" -> <<"C", "o", "n", "t", "e", "n", "t", "-", "L", "e", "n", "g", "t", "h">>
      [] n = "Content-MD5" -> <<"C", "o", "n", "t", "e", "n", "t", "-", "M", "D", "5">>
      [] n = "Content-Type" -> <<"C", "o", "n", "t", "e", "n", "t", "-", "T", "y", "p", "e">>
      [] n = "Authorization" -> <<"A", "u", "t", "h", "o", "r", "i", "z", "a", "t", "i", "o", "n">>
      [] n = "If-Match" -> <<"I", "f", "-", "M", "a", "t", "c", "h">>
      [] n = "If-None-Match" -> <<"I", "f", "-", "N", "o", "n", "e", "-", "M", "a", "t", "c", "h">>
      [] n = "x-amz-copy-source" -> <<"x", "-", "a", "m", "z", "-", "c", "o", "p", "y", "-", "s", "o", "u", "r", "c", "e">>
      [] n = "x-amz-a" -> <<"x", "-", "a", "m", "z", "-", "a">>
      [] n = "x-amz-a-b" -> <<"x", "-", "a", "m", "z", "-", "a", "-", "b">>
      [] n = "X-Amz-B" -> <<"X", "-", "A", "m", "z", "-", "B">>
      [] n = "x-amz-date" -> <<"x", "-", "a", "m", "z", "-", "d", "a", "t", "e">>
      [] n = "X-Amz-Date" -> <<"X", "-", "A", "m", "z", "-", "D", "a", "t", "e">>
      [] n = "x-amz" -> <<"x", "-", "a", "m", "z">>
      [] n = "x-am-z" -> <<"x", "-", "a", "m", "-", "z">>

XAmz == <<"x", "-", "a", "m", "z">>
XAmzDate == <<"x", "-", "a", "m", "z", "-", "d", "a", "t", "e">>

RECURSIVE Insert(_, _)
Insert(sorted, line) ==
    IF sorted = <<>> THEN <<line>>
    ELSE IF TextLess(line, Head(sorted)) THEN <<line>> \o sorted
    ELSE <<Head(sorted)>> \o Insert(Tail(sorted), line)

\* Array.prototype.sort() without a comparator: ascending by code units.
RECURSIVE SortTexts(_)
SortTexts(lines) ==
    IF lines = <<>> THEN <<>>
    ELSE Insert(SortTexts(SubSeq(lines, 1, Len(lines) - 1)), lines[Len(lines)])

----------------------------------------------------------------------------
\* Signing and the transport step

RECURSIVE Entries(_)
\* Object.entries(headers)
Entries(h) ==
    IF DOMAIN h = {} THEN <<>>
    ELSE LET n == CHOOSE x \in DOMAIN h : TRUE
         IN  <<(<<n, h[n]>>)>> \o Entries([x \in DOMAIN h \ {n} |-> h[x]])

\* The filter of canonicalizeHeaders, applied to a lowercased name.
IsVendorHeader(key) == StartsWith(key, XAmz) /\ key # XAmzDate

\* result.sort() in canonicalizeHeaders
SortLines(lines) == SortTexts(lines)

RECURSIVE VendorLines(_)
VendorLines(entries) ==
    IF entries = <<>> THEN <<>>
    ELSE LET key == ToLowerCase(Chars(Head(entries)[1]))
             val == Head(entries)[2]
         IN  (IF IsVendorHeader(key) THEN <<key \o <<":">> \o val>> ELSE <<>>)
             \o VendorLines(Tail(entries))

canonicalizeHeaders(headers) == SortLines(VendorLines(Entries(headers)))

\* The message sign() puts under the HMAC; the HMAC itself is left symbolic.
sign(method, md5, type, date, awsheaders, resource) ==
    <<"hmac-sha1", method, md5, type, date, awsheaders, resource>>

\* The parameters #request signs, none skipped.
SignedAll(q) == q

\* `if (!AWSParams.includes(key)) continue`
RECURSIVE SignedParams(_)
SignedParams(q) ==
    IF q = <<>> THEN <<>>
    ELSE (IF Head(q)[1] \in AWSParams THEN <<Head(q)>> ELSE <<>>)
         \o SignedParams(Tail(q))

\* encodeURIComponent, for the characters the model uses: a slash and a
\* space are escaped; the text of a number and an upload ID hold none.
EncodeURIComponent(v) ==
    IF Len(v) = 2 /\ v[1] \in {"#", "upload"} THEN v
    ELSE [i \in DOMAIN v |->
             CASE v[i] = "/" -> "%2F"
               [] v[i] = " " -> "%20"
               [] OTHER -> v[i]]

\* `${first ? '?' : '&'}${key}${val ? `=${encodeURIComponent(val)}` : ''}`
\* for each signed parameter, as the pieces of the string.
RECURSIVE ResourceQuery(_, _)
ResourceQuery(q, first) ==
    IF q = <<>> THEN <<>>
    ELSE <<(IF first THEN <<"?">> ELSE <<"&">>), <<Head(q)[1]>>>>
         \o (IF Truthy(Head(q)[2])
             THEN <<(<<"=">>), EncodeURIComponent(Head(q)[2])>> ELSE <<>>)
         \o ResourceQuery(Tail(q), FALSE)

\* The resource string of #request (path-based addressing): the path, then
\* the pieces of the query.
Resource(url) == <<url.path>> \o ResourceQuery(SignedParams(url.query), TRUE)

MD5(body) == <<"md5">> \o body
OctetStream == <<"application/octet-stream">>
XmlType == <<"application/xml; charset=UTF-8">>
DateText(date) == <<"date", date>>
HostText == <<"host">>

\* The header mapping as #request leaves it: Date, Host, the body's
\* headers when the body is not empty, and Authorization.
RequestHeaders(method, url, h, body, date) ==
    LET h1 == SetHdr(SetHdr(h, "Date", DateText(date)), "Host", HostText)
        h2 == IF Len(body) > 0
              THEN DefaultHdr(
                       SetHdr(SetHdr(h1, "Content-Length", NumText(Len(body))),
                              "Content-MD5", MD5(body)),
                       "Content-Type", OctetStream)
              ELSE h1
        signature == sign(method, HdrOrEmpty(h2, "Content-MD5"),
                          HdrOrEmpty(h2, "Content-Type"), h2["Date"],
                          canonicalizeHeaders(h2), Resource(url))
    IN  SetHdr(h2, "Authorization", <<"AWS", signature>>)

\* A response: its status, whether it carries a Location, its ETag header
\* (null when there is none) and its body.
Response(status, location, etag, body) ==
    [status |-> status, location |-> location, etag |-> etag, body |-> body]

NoResponse == Response(0, FALSE, Null, <<>>)

\* response.ok
ResponseOk(resp) == resp.status >= 200 /\ resp.status <= 299

\* The redirect mode of the fetch call in #request: no `redirect` option is
\* given, so fetch follows a redirect status that carries a Location.
FetchFollows(resp) ==
    resp.status \in {301, 302, 303, 307, 308} /\ resp.location

\* The response fetch resolves with, given what the service answers hop by
\* hop (the first element answers the request issued).
RECURSIVE FetchResponse(_)
FetchResponse(hops) ==
    IF Len(hops) > 1 /\ FetchFollows(hops[1])
    THEN FetchResponse(Tail(hops))
    ELSE hops[1]

\* Whether #request resolves (otherwise it throws the HTTP error).
RequestResolves(hops) == ResponseOk(FetchResponse(hops))

HttpError(resp, n) == <<"HTTP", resp.status, n>>

----------------------------------------------------------------------------
\* Response bodies.  xml2js is a collaborator: a body is the path to the one
\* text the code plucks from it, or a text that is no XML at all.

NotXml == <<"not xml">>

StartBody(id) == <<"InitiateMultipartUploadResult", "UploadId", id>>
StartBodyNoId == <<"InitiateMultipartUploadResult">>
CommitBody(etag) == <<"CompleteMultipartUploadResult", "ETag", etag>>
CommitBodyNoETag == <<"CompleteMultipartUploadResult">>

\* response?.[root]?.[0]?.[field]?.[0]?._text?.[0]
XmlText(body, root, field) ==
    IF Len(body) = 3 /\ body[1] = root /\ body[2] = field
    THEN body[3] ELSE Undefined

\* partXML: the lines of one part of the manifest (no checksum is ever set).
partXML(part) == <<"Part", "ETag", part.etag, "PartNumber", part.number>>

\* partsXML: the manifest, the parts in the order of the list.
partsXML(ps) ==
    <<(<<"CompleteMultipartUpload">>)>> \o [i \in DOMAIN ps |-> partXML(ps[i])]

----------------------------------------------------------------------------
\* The calls of the multipart protocol and of put, as requests.

Name == <<"key">>

Call(op, method, url, h, body, date) ==
    [op |-> op, method |-> method, url |-> url,
     hdrs |-> RequestHeaders(method, url, h, body, date), body |-> body,
     resp |-> NoResponse, state |-> "pending"]

\* #startMultipart: POST ?uploads with an empty body and fresh headers.
StartCall(date) ==
    Call("start", "POST", [path |-> Name, query |-> <<(<<"uploads", EmptyString>>)>>],
         NoHeaders, <<>>, date)

\* #uploadPart: PUT ?partNumber=&uploadId= with fresh headers.
PartCall(uid, num, content, date) ==
    Call("part", "PUT",
         ParamSet(ParamSet(Url(Name), "partNumber", NumText(num)), "uploadId", uid),
         NoHeaders, content, date)

\* #commitMultipart: POST ?uploadId= with the manifest.
CommitCall(uid, ps, h, date) ==
    Call("commit", "POST", ParamSet(Url(Name), "uploadId", uid),
         Spread(h, [n \in {"Content-Type"} |-> XmlType]), partsXML(ps), date)

\* #abortMultipart: DELETE ?uploadId= with fresh headers.
AbortCall(uid, date) ==
    Call("abort", "DELETE", ParamSet(Url(Name), "uploadId", uid),
         NoHeaders, <<>>, date)

\* put as it would be with a create-only precondition for the caller who
\* expects no ETag.
PutHeadersCreateOnly(h) ==
    DefaultHdr(IF Has(h, "If-Match") THEN h ELSE SetHdr(h, "If-None-Match", <<"*">>),
               "Content-Type", OctetStream)

\* put of a buffer: the caller's mapping, with the default content type.
PutHeaders(h) == DefaultHdr(h, "Content-Type", OctetStream)

PutCall(h, content, date) ==
    Call("put", "PUT", Url(Name), PutHeaders(h), content, date)

\* What the service may answer to each call.
StartResponses(id) ==
    {Response(500, FALSE, Null, <<>>),
     Response(200, FALSE, Null, StartBody(id)),
     Response(200, FALSE, Null, StartBodyNoId),
     Response(200, FALSE, Null, <<>>)}

PartResponses(body) ==
    {Response(500, FALSE, Null, <<>>),
     Response(200, FALSE, Quote(MD5(body)), <<>>),
     Response(200, FALSE, MD5(body), <<>>)}

ObjectETag == <<"etag", "object">>

CommitResponses ==
    {Response(500, FALSE, Null, <<>>),
     Response(200, FALSE, Null, CommitBody(Quote(ObjectETag))),
     Response(200, FALSE, Null, CommitBodyNoETag),
     Response(200, FALSE, Null, NotXml)}

AbortResponses ==
    {Response(204, FALSE, Null, <<>>), Response(500, FALSE, Null, <<>>)}

PutResponses(body) ==
    {Response(200, FALSE, Quote(MD5(body)), <<>>),
     Response(412, FALSE, Null, <<>>)}

----------------------------------------------------------------------------
\* #putStream

Pending == [kind |-> "pending", val |-> <<>>]
Resolved(v) == [kind |-> "resolved", val |-> v]
Rejected(e) == [kind |-> "rejected", val |-> e]

\* new AggregateError([err, suberr], err.message)
AggregateError(e, suberr) == <<"AggregateError", e, suberr>>

\* Mutants of the threshold test: it fires at the threshold already, or
\* only at twice the threshold.
ThresholdReached(len) == len >= MIN_CHUNK_SIZE
ThresholdDoubled(len) == len > 2 * MIN_CHUNK_SIZE

\* Mutant of the threshold test: it fires as soon as the buffer holds a byte.
ThresholdNonEmpty(len) == len > 0

\* `if (length > MIN_CHUNK_SIZE)`
ThresholdExceeded(len) == len > MIN_CHUNK_SIZE

\* `uploadId ?? (await this.#startMultipart(name))`: whether start is called
NeedsStart(uid) == Nullish(uid)

\* Mutant of the part numbering: numbers counted from zero.
PartNumberFromZero(ps) == Len(ps)

\* `const number = parts.length + 1`
NextPartNumber(ps) == Len(ps) + 1

\* Mutant of the catch block: the abort is skipped.
AbortSkipped(uid) == FALSE

\* Mutant of the catch block: the abort is sent whether or not an upload ID
\* is held.
AbortAlways(uid) == TRUE

\* `if (uploadId)` of the catch block
AbortNeeded(uid) == Truthy(uid)

\* `if (uploadId)` after the loop
SessionOpen(uid) == Truthy(uid)

\* Mutant of the catch block: the abort's error masks the original one.
AbortErrorOnly(e, abortOk, suberr) == IF abortOk THEN e ELSE suberr

\* What the catch block throws once the abort has settled.
AfterAbort(e, abortOk, suberr) ==
    IF abortOk THEN e ELSE AggregateError(e, suberr)

\* The upload ID the service gives the session a start call opens.
SessionId(n) == <<"upload", n>>

Settled(resp, st) ==
    [calls EXCEPT ![Len(calls)].resp = resp, ![Len(calls)].state = st]

\* A catch block that notes the error and lets the loop go on.
CatchContinues(e, cs) ==
    /\ err' = e
    /\ calls' = cs
    /\ pc' = "read"
    /\ result' = result

\* The catch block, entered with error e after the calls cs.
Catch(e, cs) ==
    /\ err' = e
    /\ IF AbortNeeded(uploadId)
       THEN /\ calls' = Append(cs, AbortCall(uploadId, Len(cs) + 1))
            /\ pc' = "abort"
            /\ result' = result
       ELSE /\ calls' = cs
            /\ pc' = "done"
            /\ result' = Rejected(e)

\* Mutant of the flush: the part is dispatched and the loop goes on without
\* awaiting it.
FlushNoWait(cs, st, len, uid) ==
    /\ calls' = Append(cs, PartCall(uid, NextPartNumber(parts),
                                    BufferConcat(st, len), Len(cs) + 1))
    /\ store' = <<>>
    /\ length' = 0
    /\ pc' = "read"

\* Lines 636-644: the buffer leaves as the next part.
Flush(cs, st, len, uid) ==
    /\ calls' = Append(cs, PartCall(uid, NextPartNumber(parts),
                                    BufferConcat(st, len), Len(cs) + 1))
    /\ store' = <<>>
    /\ length' = 0
    /\ pc' = "part"

\* The stream delivers a chunk of n bytes.
ReadChunk(n) ==
    /\ pc = "read"
    /\ total + n <= MaxTotal
    /\ n = 0 => nEmpty < MaxEmpty
    /\ UNCHANGED outside
    /\ LET chunk == [i \in 1..n |-> total + i]
           st == Append(store, chunk)
           len == length + n
       IN  /\ total' = total + n
           /\ nEmpty' = IF n = 0 THEN nEmpty + 1 ELSE nEmpty
           /\ maxChunk' = IF n > maxChunk THEN n ELSE maxChunk
           /\ IF ThresholdExceeded(len)
              THEN IF NeedsStart(uploadId)
                   THEN /\ calls' = Append(calls, StartCall(Len(calls) + 1))
                        /\ store' = st
                        /\ length' = len
                        /\ pc' = "start"
                   ELSE Flush(calls, st, len, uploadId)
              ELSE /\ store' = st
                   /\ length' = len
                   /\ pc' = "read"
                   /\ calls' = calls
           /\ UNCHANGED <<uploadId, parts, err, result, hdrs>>

\* The start call settles.
StartReturns(resp) ==
    /\ pc = "start"
    /\ LET uid == XmlText(resp.body, "InitiateMultipartUploadResult", "UploadId")
       IN  IF ~RequestResolves(<<resp>>)
           THEN /\ Catch(HttpError(resp, Len(calls)), Settled(resp, "threw"))
                /\ UNCHANGED <<store, length, uploadId>>
           ELSE IF Len(resp.body) = 0
           THEN /\ Catch(<<"Error", "failed to start multi-part upload">>,
                         Settled(resp, "threw"))
                /\ UNCHANGED <<store, length, uploadId>>
           ELSE IF resp.body = NotXml
           THEN /\ Catch(<<"Error", "xml">>, Settled(resp, "threw"))
                /\ UNCHANGED <<store, length, uploadId>>
           ELSE /\ uploadId' = uid
                /\ Flush(Settled(resp, "returned"), store, length, uid)
                /\ UNCHANGED <<err, result>>
    /\ UNCHANGED <<parts, hdrs, total, nEmpty, maxChunk, outside>>

\* An upload-part call settles, in the loop or after it.
PartReturns(resp) ==
    /\ pc \in {"part", "lastpart"}
    /\ LET etag == JSONparse(resp.etag)
       IN  IF ~RequestResolves(<<resp>>)
           THEN /\ Catch(HttpError(resp, Len(calls)), Settled(resp, "threw"))
                /\ UNCHANGED parts
           ELSE IF ~etag.ok
           THEN /\ Catch(etag.val, Settled(resp, "threw"))
                /\ UNCHANGED parts
           ELSE LET ps == Append(parts, [etag |-> etag.val,
                                         number |-> NextPartNumber(parts)])
                    cs == Settled(resp, "returned")
                IN  /\ parts' = ps
                    /\ IF pc = "part"
                       THEN /\ pc' = "read"
                            /\ calls' = cs
                       ELSE /\ pc' = "commit"
                            /\ calls' = Append(cs, CommitCall(uploadId, ps, hdrs,
                                                              Len(cs) + 1))
                    /\ UNCHANGED <<err, result>>
    /\ UNCHANGED <<store, length, uploadId, hdrs, total, nEmpty, maxChunk, outside>>

\* The stream ends.
StreamEnd ==
    /\ pc = "read"
    /\ IF SessionOpen(uploadId)
       THEN /\ IF length # 0
               THEN /\ calls' = Append(calls,
                          PartCall(uploadId, NextPartNumber(parts),
                                   BufferConcat(store, length), Len(calls) + 1))
                    /\ pc' = "lastpart"
               ELSE /\ calls' = Append(calls,
                          CommitCall(uploadId, parts, hdrs, Len(calls) + 1))
                    /\ pc' = "commit"
            /\ UNCHANGED hdrs
       ELSE LET call == PutCall(hdrs, BufferConcat(store, length), Len(calls) + 1)
            IN  /\ calls' = Append(calls, call)
                /\ hdrs' = call.hdrs
                /\ pc' = "put"
    /\ UNCHANGED <<store, length, uploadId, parts, err, result,
                   total, nEmpty, maxChunk, outside>>

\* The stream throws.
StreamThrows ==
    /\ pc = "read"
    /\ Catch(<<"StreamError">>, calls)
    /\ UNCHANGED <<store, length, uploadId, parts, hdrs, total, nEmpty, maxChunk, outside>>

\* The commit call settles.
CommitReturns(resp) ==
    /\ pc = "commit"
    /\ IF ~RequestResolves(<<resp>>)
       THEN Catch(HttpError(resp, Len(calls)), Settled(resp, "threw"))
       ELSE IF resp.body = NotXml
       THEN Catch(<<"Error", "xml">>, Settled(resp, "threw"))
       ELSE /\ calls' = Settled(resp, "returned")
            /\ result' = Resolved(XmlText(resp.body,
                                          "CompleteMultipartUploadResult", "ETag"))
            /\ pc' = "done"
            /\ UNCHANGED err
    /\ UNCHANGED <<store, length, uploadId, parts, hdrs, total, nEmpty, maxChunk, outside>>

\* The abort call settles.
AbortReturns(resp) ==
    /\ pc = "abort"
    /\ calls' = Settled(resp, IF RequestResolves(<<resp>>) THEN "returned" ELSE "threw")
    /\ result' = Rejected(AfterAbort(err, RequestResolves(<<resp>>),
                                     HttpError(resp, Len(calls))))
    /\ pc' = "done"
    /\ UNCHANGED <<store, length, uploadId, parts, err, hdrs, total, nEmpty, maxChunk, outside>>

\* How put of a buffer settles on the response to its request, the n-th call:
\* `return JSON.parse(headers.get('etag'))`, or what #request or JSON.parse throws.
PutResult(resp, n) ==
    IF ~RequestResolves(<<resp>>) THEN Rejected(HttpError(resp, n))
    ELSE IF JSONparse(resp.etag).ok THEN Resolved(JSONparse(resp.etag).val)
    ELSE Rejected(JSONparse(resp.etag).val)

\* The PUT of the direct path settles.
PutReturns(resp) ==
    /\ pc = "put"
    /\ result' = PutResult(resp, Len(calls))
    /\ calls' = Settled(resp, IF PutResult(resp, Len(calls)).kind = "resolved"
                              THEN "returned" ELSE "threw")
    /\ pc' = "done"
    /\ UNCHANGED <<store, length, uploadId, parts, err, hdrs, total, nEmpty, maxChunk, outside>>

\* The header mappings a caller passes to put.
CallerHeaders ==
    {NoHeaders,
     [n \in {"If-Match", "Content-Type"} |->
         IF n = "If-Match" THEN Quote(ObjectETag) ELSE <<"text/plain">>]}

\* #putStream's locals as it begins.
StreamInit ==
    /\ store = <<>>
    /\ length = 0
    /\ uploadId = Null
    /\ parts = <<>>
    /\ err = <<>>
    /\ total = 0
    /\ nEmpty = 0
    /\ maxChunk = 0

\* No list under way.
ListIdle ==
    /\ listPrefix = Undefined
    /\ options = NoHeaders
    /\ continuation = Undefined
    /\ listItems = <<>>
    /\ yielded = <<>>
    /\ pages = <<>>

Init ==
    /\ pc = "read"
    /\ StreamInit
    /\ result = Pending
    /\ hdrs \in CallerHeaders
    /\ given = hdrs
    /\ calls = <<>>
    /\ ListIdle
    /\ bucket = <<>>
    /\ exchanges = <<>>
    /\ canonical = <<>>

\* The service's side of the multipart protocol: the sessions it has opened
\* (one per start call it answered 2xx, whether or not the answer carried the
\* upload ID) and not yet closed by a commit or an abort it accepted.
OpenSessions ==
    {SessionId(i) : i \in {x \in DOMAIN calls :
                              calls[x].op = "start" /\ ResponseOk(calls[x].resp)}}
    \ {ParamGet(calls[i].url, "uploadId") :
           i \in {x \in DOMAIN calls : /\ calls[x].op \in {"commit", "abort"}
                                      /\ ResponseOk(calls[x].resp)}}

\* The service knows no session of the upload ID the pending call names.
NoSuchUpload == {Response(404, FALSE, Null, <<>>)}

\* The answers the service may give to the pending call, one of `answers`
\* when the call names an open session.
SessionAnswers(answers) ==
    IF ParamGet(calls[Len(calls)].url, "uploadId") \in OpenSessions
    THEN answers ELSE NoSuchUpload

Next ==
    \/ \E n \in ChunkSizes : ReadChunk(n)
    \/ /\ pc = "start"
       /\ \E resp \in StartResponses(SessionId(Len(calls))) : StartReturns(resp)
    \/ /\ pc \in {"part", "lastpart"}
       /\ \E resp \in SessionAnswers(PartResponses(calls[Len(calls)].body)) :
             PartReturns(resp)
    \/ StreamEnd
    \/ StreamThrows
    \/ /\ pc = "commit"
       /\ \E resp \in SessionAnswers(CommitResponses) : CommitReturns(resp)
    \/ /\ pc = "abort"
       /\ \E resp \in SessionAnswers(AbortResponses) : AbortReturns(resp)
    \/ /\ pc = "put"
       /\ \E resp \in PutResponses(calls[Len(calls)].body) : PutReturns(resp)

Spec == Init /\ [][Next]_vars

----------------------------------------------------------------------------
\* list and #list

\* The pages the service may split a listing over, and the items of a page.
MaxPages == 3
MaxPageItems == 2

\* The requests one list may issue before the model stops following it.
MaxRequests == 4

Space == " "
Slash == "/"

\* String.prototype.trim
RECURSIVE TrimStart(_)
TrimStart(t) ==
    IF t # <<>> /\ Head(t) = Space THEN TrimStart(Tail(t)) ELSE t

RECURSIVE TrimEnd(_)
TrimEnd(t) ==
    IF t # <<>> /\ t[Len(t)] = Space THEN TrimEnd(SubSeq(t, 1, Len(t) - 1)) ELSE t

Trim(t) == TrimEnd(TrimStart(t))

RECURSIVE DropSlashes(_)
DropSlashes(t) ==
    IF t # <<>> /\ Head(t) = Slash THEN DropSlashes(Tail(t)) ELSE t

\* split(/\/+/): the segments between runs of slashes, seg being the one
\* under way.
RECURSIVE SplitSlashes(_, _)
SplitSlashes(t, seg) ==
    IF t = <<>> THEN <<seg>>
    ELSE IF Head(t) = Slash
         THEN <<seg>> \o SplitSlashes(DropSlashes(Tail(t)), <<>>)
         ELSE SplitSlashes(Tail(t), Append(seg, Head(t)))

\* flatMap((x) => ((x = x.trim()), x ? [x] : []))
RECURSIVE TrimmedSegments(_)
TrimmedSegments(segs) ==
    IF segs = <<>> THEN <<>>
    ELSE (IF Trim(Head(segs)) # <<>> THEN <<Trim(Head(segs))>> ELSE <<>>)
         \o TrimmedSegments(Tail(segs))

\* join('/')
RECURSIVE Join(_)
Join(segs) ==
    IF segs = <<>> THEN <<>>
    ELSE IF Len(segs) = 1 THEN Head(segs)
    ELSE Head(segs) \o <<Slash>> \o Join(Tail(segs))

\* The first statements of list: the prefix it goes on with.
NormalizePrefix(p) ==
    LET joined == IF Nullish(p) THEN Undefined
                  ELSE Join(TrimmedSegments(SplitSlashes(p, <<>>)))
    IN  IF Truthy(joined) THEN joined \o <<Slash>> ELSE Undefined

\* url.searchParams.set(key, val) for each entry of options
RECURSIVE SetOptions(_, _)
SetOptions(url, entries) ==
    IF entries = <<>> THEN url
    ELSE SetOptions(ParamSet(url, Head(entries)[1], Head(entries)[2]), Tail(entries))

\* The NextContinuationToken element as xml2js hands it over with alwaysArray:
\* an array holding the element, not its text.
TokenElement(text) == <<"[", "_text", text, "]">>

\* The text searchParams.set makes of a value.
ToText(v) ==
    IF Len(v) = 4 /\ v[1] = "[" THEN <<"[object Object]">> ELSE v

\* The URL #list builds.
ListUrl(p, o, c) ==
    LET u1 == ParamSet(SetOptions(Url(<<Slash>>), Entries(o)), "list-type", <<"2">>)
        u2 == IF Truthy(c) THEN ParamSet(u1, "continuation-token", ToText(c)) ELSE u1
    IN  IF Truthy(p)
        THEN ParamSet(ParamSet(u2, "delimiter", <<Slash>>), "prefix", p)
        ELSE u2

\* #list's request: GET with fresh headers and no body.
ListCall(p, o, c, date) ==
    Call("list", "GET", ListUrl(p, o, c), NoHeaders, <<>>, date)

\* The arguments of list's call `this.#list(prefix, options)`: #list's third
\* parameter stays undefined.
ListArguments(p, o, c) == <<p, o, Undefined>>

\* The body of a page: its items and the text of its NextContinuationToken
\* (undefined on the last page).
ListBody(its, next) == <<"ListBucketResult", its, next>>

\* What #list returns of a body.
ListedItems(body) == body[2]
ListedContinuation(body) ==
    IF body[3] = Undefined THEN Undefined ELSE TokenElement(body[3])

\* The service's listing: page i holds the items <<"item", i, j>> and, unless
\* it is the last, the token that asks for page i + 1.
PageItems(i, n) == [j \in 1..n |-> <<"item", i, j>>]
PageToken(i) == <<"token", i>>

Listings ==
    UNION {[1..P -> {PageItems(0, n) : n \in 0..MaxPageItems}] : P \in 1..MaxPages}

Renumbered(listing) ==
    [i \in DOMAIN listing |-> PageItems(i, Len(listing[i]))]

\* The page the service answers a request with: the first when the request
\* carries no token, the one its token asks for otherwise; 0 when it knows no
\* such token.
PageAsked(url) ==
    IF ~HasParam(url.query, "continuation-token") THEN 1
    ELSE IF \E i \in 1..(Len(pages) - 1) :
                ParamGet(url, "continuation-token") = PageToken(i)
    THEN 1 + CHOOSE i \in 1..(Len(pages) - 1) :
                ParamGet(url, "continuation-token") = PageToken(i)
    ELSE 0

PageResponse(i) ==
    IF i = 0 THEN Response(400, FALSE, Null, <<>>)
    ELSE Response(200, FALSE, Null,
                  ListBody(pages[i],
                           IF i < Len(pages) THEN PageToken(i) ELSE Undefined))

ListResponses(url) ==
    {PageResponse(PageAsked(url)),
     Response(200, FALSE, Null, <<>>),
     Response(500, FALSE, Null, <<>>)}

ListFailed == <<"failed to list objects">>

\* list starts: it normalises its prefix.
ListBegins ==
    /\ pc = "begin"
    /\ listPrefix' = NormalizePrefix(listPrefix)
    /\ pc' = "list"
    /\ UNCHANGED <<options, continuation, listItems, yielded, pages>>
    /\ UNCHANGED <<result, hdrs, given, calls, streamVars, bucket, exchanges, canonical>>

\* The body of the loop, up to the await: #list sends its request.
ListCalls ==
    /\ pc = "list"
    /\ Len(calls) < MaxRequests
    /\ LET args == ListArguments(listPrefix, options, continuation)
       IN  calls' = Append(calls, ListCall(args[1], args[2], args[3], Len(calls) + 1))
    /\ pc' = "listing"
    /\ UNCHANGED <<listVars, result, hdrs, given, streamVars, bucket, exchanges, canonical>>

\* #list settles and list takes its items and its continuation.
ListReturns(resp) ==
    /\ pc = "listing"
    /\ IF ~RequestResolves(<<resp>>)
       THEN /\ result' = Rejected(HttpError(resp, Len(calls)))
            /\ calls' = Settled(resp, "threw")
            /\ pc' = "done"
            /\ UNCHANGED <<listItems, continuation>>
       ELSE IF Len(resp.body) = 0
       THEN /\ result' = Rejected(ListFailed)
            /\ calls' = Settled(resp, "threw")
            /\ pc' = "done"
            /\ UNCHANGED <<listItems, continuation>>
       ELSE /\ listItems' = ListedItems(resp.body)
            /\ continuation' = ListedContinuation(resp.body)
            /\ calls' = Settled(resp, "returned")
            /\ pc' = "yield"
            /\ result' = result
    /\ UNCHANGED <<listPrefix, options, yielded, pages>>
    /\ UNCHANGED <<hdrs, given, streamVars, bucket, exchanges, canonical>>

\* yield* items, one item.
ListYields ==
    /\ pc = "yield"
    /\ listItems # <<>>
    /\ yielded' = Append(yielded, Head(listItems))
    /\ listItems' = Tail(listItems)
    /\ UNCHANGED <<listPrefix, options, continuation, pages>>
    /\ UNCHANGED <<pc, result, hdrs, given, calls, streamVars, bucket, exchanges, canonical>>

\* `while (continuation)`, the page being yielded.
ListLoops ==
    /\ pc = "yield"
    /\ listItems = <<>>
    /\ IF Truthy(continuation)
       THEN pc' = "list" /\ result' = result
       ELSE pc' = "done" /\ result' = Resolved(<<>>)
    /\ UNCHANGED <<listVars, hdrs, given, calls, streamVars, bucket, exchanges, canonical>>

\* The prefixes and options a caller passes to list.
PrefixInputs ==
    {Undefined, <<>>, <<"a">>, <<"a", Slash>>,
     <<Slash, "a", Slash, Slash, Space, "b", Space>>}

OptionInputs ==
    {NoHeaders, [n \in {"versions", "acl"} |-> <<>>]}

InitList ==
    /\ pc = "begin"
    /\ StreamInit
    /\ result = Pending
    /\ hdrs = NoHeaders
    /\ listPrefix \in PrefixInputs
    /\ options \in OptionInputs
    /\ given = [prefix |-> listPrefix, options |-> options]
    /\ calls = <<>>
    /\ continuation = Undefined
    /\ listItems = <<>>
    /\ yielded = <<>>
    /\ pages \in {Renumbered(l) : l \in Listings}
    /\ bucket = <<>>
    /\ exchanges = <<>>
    /\ canonical = <<>>

NextList ==
    \/ ListBegins
    \/ ListCalls
    \/ /\ pc = "listing"
       /\ \E resp \in ListResponses(calls[Len(calls)].url) : ListReturns(resp)
    \/ ListYields
    \/ ListLoops

SpecList == InitList /\ [][NextList]_vars

----------------------------------------------------------------------------
\* put of a buffer, a string or an object, against a service that stores
\* what it accepts.

\* The puts one run makes.
MaxPuts == 2

TextPlain == <<"text/plain; charset=utf-8">>
JsonType == <<"application/json; charset=utf-8">>

\* Buffer.from(text, 'utf-8'), for the characters the model uses.
Utf8(text) == [i \in DOMAIN text |-> Ord(text[i])]

\* JSON.stringify of an object of one property whose value is a digit.
JsonStringify(o) == <<"{", "\"", o[1], "\"", ":", o[2], "}">>

\* The contents a caller passes to put: what it is, and its value.
PutContents ==
    {<<"buffer", <<1>>>>, <<"buffer", <<2>>>>, <<"string", <<"a">>>>,
     <<"object", <<"a", "1">>>>}

\* The buffer put sends for its content.
PutBody(content) ==
    CASE content[1] = "string" -> Utf8(content[2])
      [] content[1] = "object" -> Utf8(JsonStringify(content[2]))
      [] OTHER -> content[2]

\* The caller's mapping after the branches of put on the kind of content.
PutTypedHeaders(content, h) ==
    CASE content[1] = "string" -> DefaultHdr(h, "Content-Type", TextPlain)
      [] content[1] = "object" -> DefaultHdr(h, "Content-Type", JsonType)
      [] OTHER -> h

\* The ETags a caller may expect the stored object to have.
ExpectedETags == {MD5(PutBody(c)) : c \in PutContents}

\* The header mappings a caller passes to a direct put: none, or If-Match
\* with the ETag as put returns it or in its wire form.
DirectPutHeaders ==
    {NoHeaders}
    \cup {[n \in {"If-Match"} |-> e] : e \in ExpectedETags}
    \cup {[n \in {"If-Match"} |-> Quote(e)] : e \in ExpectedETags}

\* The object of a body, as the service stores it.
Stored(body) == [content |-> body, etag |-> MD5(body)]

\* The service holds the precondition of a PUT against what it stores.
PreconditionFails(objects, h) ==
    \/ /\ Has(h, "If-Match")
       /\ \A i \in DOMAIN objects : h["If-Match"] \notin {objects[i].etag, Quote(objects[i].etag)}
    \/ /\ Has(h, "If-None-Match")
       /\ h["If-None-Match"] = <<"*">>
       /\ objects # <<>>

\* What the service answers to a PUT: 412 when the precondition fails, else
\* 200 with the ETag of what it stored, or a failure of its own.
ObjectPutResponses(objects, call) ==
    IF PreconditionFails(objects, call.hdrs)
    THEN {Response(412, FALSE, Null, <<>>)}
    ELSE {Response(200, FALSE, Quote(MD5(call.body)), <<>>),
          Response(500, FALSE, Null, <<>>)}

\* put(resource, content, hdrs) up to the await of #request.
PutBegins(content, h) ==
    /\ pc = "idle"
    /\ Len(calls) < MaxPuts
    /\ given' = h
    /\ calls' = Append(calls, Call("put", "PUT", Url(Name),
                                   PutHeaders(PutTypedHeaders(content, h)),
                                   PutBody(content), Len(calls) + 1))
    /\ hdrs' = calls'[Len(calls')].hdrs
    /\ result' = Pending
    /\ pc' = "sent"
    /\ UNCHANGED <<streamVars, listVars, bucket, exchanges, canonical>>

\* The service answers and put settles.
PutSettles(resp) ==
    /\ pc = "sent"
    /\ bucket' = IF ResponseOk(resp) THEN <<Stored(calls[Len(calls)].body)>> ELSE bucket
    /\ result' = PutResult(resp, Len(calls))
    /\ calls' = Settled(resp, IF PutResult(resp, Len(calls)).kind = "resolved"
                              THEN "returned" ELSE "threw")
    /\ pc' = "idle"
    /\ UNCHANGED <<hdrs, given, streamVars, listVars, exchanges, canonical>>

InitPut ==
    /\ pc = "idle"
    /\ StreamInit
    /\ ListIdle
    /\ result = Pending
    /\ hdrs = NoHeaders
    /\ given = NoHeaders
    /\ calls = <<>>
    /\ bucket = <<>>
    /\ exchanges = <<>>
    /\ canonical = <<>>

NextPut ==
    \/ \E content \in PutContents, h \in DirectPutHeaders : PutBegins(content, h)
    \/ /\ pc = "sent"
       /\ \E resp \in ObjectPutResponses(bucket, calls[Len(calls)]) : PutSettles(resp)

SpecPut == InitPut /\ [][NextPut]_vars

----------------------------------------------------------------------------
\* #request against a service that may answer with any status

\* The requests one run makes, and the responses fetch may pass through for
\* one of them.
MaxExchanges == 1
MaxHops == 2

Methods == {"GET", "PUT"}

\* What the service, or the target of a redirect, may answer: any status,
\* a 3xx status with or without a Location, with or without a body.
AnyResponses ==
    {Response(s, l, Null, b) :
        s \in Statuses, l \in BOOLEAN, b \in {<<>>, <<1>>}}
    \ {Response(s, TRUE, Null, b) :
          s \in {x \in Statuses : x < 300 \/ x > 399}, b \in {<<>>, <<1>>}}

\* #request up to the call of fetch.
RequestSends(method) ==
    /\ pc = "idle"
    /\ Len(exchanges) < MaxExchanges
    /\ exchanges' = Append(exchanges,
                           [method |-> method, hops |-> <<>>, state |-> "pending",
                            status |-> 0, content |-> <<>>])
    /\ pc' = "fetch"
    /\ UNCHANGED <<result, hdrs, given, calls, streamVars, listVars, bucket, canonical>>

\* fetch receives a response; it goes on to the Location of one it follows.
FetchReceives(resp) ==
    /\ pc = "fetch"
    /\ LET n == Len(exchanges)
           hops == Append(exchanges[n].hops, resp)
       IN  /\ Len(hops) < MaxHops \/ ~FetchFollows(resp)
           /\ exchanges' = [exchanges EXCEPT ![n].hops = hops]
           /\ pc' = IF FetchFollows(resp) THEN "fetch" ELSE "fetched"
    /\ UNCHANGED <<result, hdrs, given, calls, streamVars, listVars, bucket, canonical>>

\* #request after the await of fetch: it throws unless response.ok.
RequestSettles ==
    /\ pc = "fetched"
    /\ LET n == Len(exchanges)
           response == FetchResponse(exchanges[n].hops)
       IN  exchanges' =
               [exchanges EXCEPT
                   ![n].state = IF RequestResolves(exchanges[n].hops)
                                THEN "resolved" ELSE "rejected",
                   ![n].status = response.status,
                   ![n].content = response.body]
    /\ pc' = "idle"
    /\ UNCHANGED <<result, hdrs, given, calls, streamVars, listVars, bucket, canonical>>

InitRequest ==
    /\ pc = "idle"
    /\ StreamInit
    /\ ListIdle
    /\ result = Pending
    /\ hdrs = NoHeaders
    /\ given = NoHeaders
    /\ calls = <<>>
    /\ bucket = <<>>
    /\ exchanges = <<>>
    /\ canonical = <<>>

NextRequest ==
    \/ \E method \in Methods : RequestSends(method)
    \/ \E resp \in AnyResponses : FetchReceives(resp)
    \/ RequestSettles

SpecRequest == InitRequest /\ [][NextRequest]_vars

----------------------------------------------------------------------------
\* canonicalizeHeaders over the header mappings a caller can build

\* The names and the values of the headers of a mapping.
SignNames ==
    {"x-amz-a", "x-amz-a-b", "X-Amz-B", "x-amz-date", "x-amz", "x-am-z",
     "Content-Type"}
SignValues == {<<"1">>, <<"2">>}

\* The caller sets one more header.
HeaderSet(n, v) ==
    /\ pc = "build"
    /\ ~Has(hdrs, n)
    /\ hdrs' = SetHdr(hdrs, n, v)
    /\ UNCHANGED <<pc, result, given, calls, streamVars, listVars, bucket, exchanges,
                   canonical>>

\* #request calls canonicalizeHeaders(hdrs) for the string to sign.
Canonicalizes ==
    /\ pc = "build"
    /\ canonical' = canonicalizeHeaders(hdrs)
    /\ pc' = "signed"
    /\ UNCHANGED <<result, hdrs, given, calls, streamVars, listVars, bucket, exchanges>>

InitSign ==
    /\ pc = "build"
    /\ StreamInit
    /\ ListIdle
    /\ result = Pending
    /\ hdrs = NoHeaders
    /\ given = NoHeaders
    /\ calls = <<>>
    /\ bucket = <<>>
    /\ exchanges = <<>>
    /\ canonical = <<>>

NextSign ==
    \/ \E n \in SignNames, v \in SignValues : HeaderSet(n, v)
    \/ Canonicalizes

SpecSign == InitSign /\ [][NextSign]_vars

----------------------------------------------------------------------------
\* The resource string #request signs, over the URLs a request can have

\* The parameters of a URL.
MaxParams == 2

\* Names inside and outside the fixed list, and values: none, a digit, and
\* one that encodeURIComponent changes.
ParamNames == {"acl", "versions", "uploadId", "list-type", "prefix", "x-id"}
ParamValues == {<<>>, <<"1">>, <<"a", "/", "b">>}

Queries ==
    UNION {[1..n -> {<<k, v>> : k \in ParamNames, v \in ParamValues}] :
              n \in 0..MaxParams}

\* #request(method, url, {}) up to the call of fetch: the URL goes on the
\* wire as it is, the resource string goes under the signature.
RequestSigns(method, q) ==
    /\ pc = "idle"
    /\ given' = [path |-> Name, query |-> q]
    /\ calls' = Append(calls, Call("request", method, given', NoHeaders, <<>>,
                                   Len(calls) + 1))
    /\ pc' = "sent"
    /\ UNCHANGED <<result, hdrs, streamVars, listVars, bucket, exchanges, canonical>>

InitResource ==
    /\ pc = "idle"
    /\ StreamInit
    /\ ListIdle
    /\ result = Pending
    /\ hdrs = NoHeaders
    /\ given = NoHeaders
    /\ calls = <<>>
    /\ bucket = <<>>
    /\ exchanges = <<>>
    /\ canonical = <<>>

NextResource ==
    \E method \in Methods, q \in Queries : RequestSigns(method, q)

SpecResource == InitResource /\ [][NextResource]_vars

----------------------------------------------------------------------------
\* copy and head, against a service that stores objects under two keys

BucketName == <<"b", "k", "t">>

\* The keys of the bucket, as copy and head are given them.
CopyKeys == {<<"s">>, <<"t">>}

\* What a key holds before the copy: nothing, or an object.
KeyContents == {<<>>, <<Stored(<<1>>)>>, <<Stored(<<2>>)>>}

\* filter((x) => (x = x.trim())): the segments that are not blank, untrimmed.
RECURSIVE NonBlank(_)
NonBlank(segs) ==
    IF segs = <<>> THEN <<>>
    ELSE (IF Trim(Head(segs)) # <<>> THEN <<Head(segs)>> ELSE <<>>)
         \o NonBlank(Tail(segs))

\* The value of x-amz-copy-source: the bucket, then the segments of the source.
CopySource(source) == Join(NonBlank(<<BucketName>> \o SplitSlashes(source, <<>>)))

\* The key an x-amz-copy-source value names, as the service reads it.
SourceKey(value) == SubSeq(value, Len(BucketName) + 2, Len(value))

\* The headers copy hands to #request: { ...hdrs, 'x-amz-copy-source': source }
CopyHeaders(h, source) ==
    Spread(h, [n \in {"x-amz-copy-source"} |-> CopySource(source)])

\* copy's request: PUT on the URL of its second parameter, no body.
CopyCall(source, target, h, date) ==
    Call("copy", "PUT", Url(target), CopyHeaders(h, source), <<>>, date)

\* head's request.
HeadCall(resource, date) ==
    Call("head", "HEAD", Url(resource), NoHeaders, <<>>, date)

CopyBody(etag) == <<"CopyObjectResult", "ETag", etag>>
CopyBodyNoETag == <<"CopyObjectResult">>
ErrorBody == <<"Error", "Code", <<"InternalError">>>>

\* What the service may answer to the copy request, and whether it has then
\* written the target: 404 without the source object; otherwise the copy
\* done and reported with the new ETag, or not done and answered 200 with
\* an error document, with a result that has no ETag, with an empty body or
\* with no XML, or answered 500.
CopyAnswers(objects, call) ==
    LET from == SourceKey(call.hdrs["x-amz-copy-source"])
    IN  IF from \notin DOMAIN objects \/ objects[from] = <<>>
        THEN {[resp |-> Response(404, FALSE, Null, <<>>), done |-> FALSE]}
        ELSE {[resp |-> Response(200, FALSE, Null,
                                 CopyBody(Quote(objects[from][1].etag))),
               done |-> TRUE],
              [resp |-> Response(200, FALSE, Null, ErrorBody), done |-> FALSE],
              [resp |-> Response(200, FALSE, Null, CopyBodyNoETag), done |-> TRUE],
              [resp |-> Response(200, FALSE, Null, <<>>), done |-> TRUE],
              [resp |-> Response(200, FALSE, Null, NotXml), done |-> FALSE],
              [resp |-> Response(500, FALSE, Null, <<>>), done |-> FALSE]}

\* The bucket after the service has copied for the call.
Copied(objects, call) ==
    [objects EXCEPT ![call.url.path] =
        objects[SourceKey(call.hdrs["x-amz-copy-source"])]]

\* How copy settles on the response, the n-th call.  xml2js is a collaborator:
\* of an empty text it gives a document without elements, or it throws.
CopyResult(resp, n, emptyThrows) ==
    IF ~RequestResolves(<<resp>>) THEN Rejected(HttpError(resp, n))
    ELSE IF resp.body = NotXml \/ (resp.body = <<>> /\ emptyThrows)
    THEN Rejected(<<"Error", "xml">>)
    ELSE LET etag == XmlText(resp.body, "CopyObjectResult", "ETag")
             text == IF Nullish(etag) THEN Quote(EmptyString) ELSE etag
         IN  IF JSONparse(text).ok THEN Resolved(JSONparse(text).val)
             ELSE Rejected(JSONparse(text).val)

\* copy(source, target, hdrs) up to the await of #request.
CopyBegins(source, target, h) ==
    /\ pc = "idle"
    /\ hdrs' = h
    /\ given' = [first |-> source, second |-> target, hdrs |-> h, before |-> bucket]
    /\ calls' = Append(calls, CopyCall(source, target, h, Len(calls) + 1))
    /\ pc' = "copying"
    /\ UNCHANGED <<result, streamVars, listVars, bucket, exchanges, canonical>>

\* The service answers and copy settles.
CopyReturns(answer, emptyThrows) ==
    /\ pc = "copying"
    /\ bucket' = IF answer.done THEN Copied(bucket, calls[Len(calls)]) ELSE bucket
    /\ result' = CopyResult(answer.resp, Len(calls), emptyThrows)
    /\ calls' = Settled(answer.resp,
                        IF CopyResult(answer.resp, Len(calls), emptyThrows).kind = "resolved"
                        THEN "returned" ELSE "threw")
    /\ pc' = "copied"
    /\ UNCHANGED <<hdrs, given, streamVars, listVars, exchanges, canonical>>

\* head(resource) up to the await of #request.
HeadBegins(resource) ==
    /\ pc = "copied"
    /\ calls' = Append(calls, HeadCall(resource, Len(calls) + 1))
    /\ pc' = "heading"
    /\ UNCHANGED <<result, hdrs, given, streamVars, listVars, bucket, exchanges, canonical>>

\* What the service answers to HEAD: the ETag of the object, or 404.
HeadAnswer(objects, call) ==
    IF objects[call.url.path] = <<>> THEN Response(404, FALSE, Null, <<>>)
    ELSE Response(200, FALSE, Quote(objects[call.url.path][1].etag), <<>>)

\* head settles: it returns the headers.
HeadReturns ==
    /\ pc = "heading"
    /\ LET resp == HeadAnswer(bucket, calls[Len(calls)])
       IN  calls' = Settled(resp, IF RequestResolves(<<resp>>) THEN "returned" ELSE "threw")
    /\ pc' = "copied"
    /\ UNCHANGED <<result, hdrs, given, streamVars, listVars, bucket, exchanges, canonical>>

\* The header mappings a caller passes to copy.
CopyCallerHeaders ==
    {NoHeaders, [n \in {"Content-Type"} |-> TextPlain]}

\* The calls one run makes.
MaxCopyCalls == 3

InitCopy ==
    /\ pc = "idle"
    /\ StreamInit
    /\ ListIdle
    /\ result = Pending
    /\ hdrs = NoHeaders
    /\ given = NoHeaders
    /\ calls = <<>>
    /\ bucket \in [CopyKeys -> KeyContents]
    /\ exchanges = <<>>
    /\ canonical = <<>>

NextCopy ==
    \/ \E source \in CopyKeys, target \in CopyKeys, h \in CopyCallerHeaders :
          CopyBegins(source, target, h)
    \/ /\ pc = "copying"
       /\ \E answer \in CopyAnswers(bucket, calls[Len(calls)]), emptyThrows \in BOOLEAN :
             CopyReturns(answer, emptyThrows)
    \/ /\ Len(calls) < MaxCopyCalls
       /\ \E resource \in CopyKeys : HeadBegins(resource)
    \/ HeadReturns

SpecCopy == InitCopy /\ [][NextCopy]_vars

----------------------------------------------------------------------------
\* get, against a service that holds the conditional header against what it
\* stores

\* The gets one run makes.
MaxGets == 2

\* The ETags a caller passes to get: none, the empty string, or one as put
\* returns it or in its wire form.
GetETags ==
    {Undefined, EmptyString, MD5(<<1>>), MD5(<<2>>), Quote(MD5(<<1>>))}

\* The headers get hands to #request.
GetHeaders(etag) ==
    IF Truthy(etag) THEN SetHdr(NoHeaders, "If-None-Match", etag) ELSE NoHeaders

GetCall(resource, etag, date) ==
    Call("get", "GET", Url(resource), GetHeaders(etag), <<>>, date)

\* What the service may answer to a GET: 404 without the object, 304 when
\* If-None-Match names the ETag of the object, the object otherwise; or 500.
GetAnswers(objects, call) ==
    {Response(500, FALSE, Null, <<>>),
     IF objects = <<>> THEN Response(404, FALSE, Null, <<>>)
     ELSE IF /\ Has(call.hdrs, "If-None-Match")
             /\ call.hdrs["If-None-Match"] \in {objects[1].etag, Quote(objects[1].etag)}
     THEN Response(304, FALSE, Quote(objects[1].etag), <<>>)
     ELSE Response(200, FALSE, Quote(objects[1].etag), objects[1].content)}

\* How get settles on the response, the n-th call: it returns the content
\* #request resolved with.
GetResult(resp, n) ==
    IF ~RequestResolves(<<resp>>) THEN Rejected(HttpError(resp, n))
    ELSE Resolved(resp.body)

\* get(resource, etag) up to the await of #request.
GetBegins(etag) ==
    /\ pc = "idle"
    /\ Len(calls) < MaxGets
    /\ given' = etag
    /\ calls' = Append(calls, GetCall(Name, etag, Len(calls) + 1))
    /\ result' = Pending
    /\ pc' = "getting"
    /\ UNCHANGED <<hdrs, streamVars, listVars, bucket, exchanges, canonical>>

\* The service answers and get settles.
GetReturns(resp) ==
    /\ pc = "getting"
    /\ result' = GetResult(resp, Len(calls))
    /\ calls' = Settled(resp, IF GetResult(resp, Len(calls)).kind = "resolved"
                              THEN "returned" ELSE "threw")
    /\ pc' = "idle"
    /\ UNCHANGED <<hdrs, given, streamVars, listVars, bucket, exchanges, canonical>>

InitGet ==
    /\ pc = "idle"
    /\ StreamInit
    /\ ListIdle
    /\ result = Pending
    /\ hdrs = NoHeaders
    /\ given = Undefined
    /\ calls = <<>>
    /\ bucket \in KeyContents
    /\ exchanges = <<>>
    /\ canonical = <<>>

NextGet ==
    \/ \E etag \in GetETags : GetBegins(etag)
    \/ /\ pc = "getting"
       /\ \E resp \in GetAnswers(bucket, calls[Len(calls)]) : GetReturns(resp)

SpecGet == InitGet /\ [][NextGet]_vars

----------------------------------------------------------------------------
\* Successive puts that are passed one and the same header mapping

\* An empty buffer, besides the contents of a put.
ReuseContents == PutContents \cup {<<"buffer", <<>>>>}

\* put(resource, content, hdrs) with the mapping the caller holds, up to the
\* await of #request: put and #request write into that mapping.
PutWithSame(content) ==
    /\ pc = "idle"
    /\ Len(calls) < MaxPuts
    /\ calls' = Append(calls, Call("put", "PUT", Url(Name),
                                   PutHeaders(PutTypedHeaders(content, hdrs)),
                                   PutBody(content), Len(calls) + 1))
    /\ hdrs' = calls'[Len(calls')].hdrs
    /\ result' = Pending
    /\ pc' = "sent"
    /\ UNCHANGED <<given, streamVars, listVars, bucket, exchanges, canonical>>

InitReuse ==
    /\ pc = "idle"
    /\ StreamInit
    /\ ListIdle
    /\ result = Pending
    /\ hdrs \in CallerHeaders
    /\ given = hdrs
    /\ calls = <<>>
    /\ bucket = <<>>
    /\ exchanges = <<>>
    /\ canonical = <<>>

NextReuse ==
    \/ \E content \in ReuseContents : PutWithSame(content)
    \/ /\ pc = "sent"
       /\ \E resp \in ObjectPutResponses(bucket, calls[Len(calls)]) : PutSettles(resp)

SpecReuse == InitReuse /\ [][NextReuse]_vars

----------------------------------------------------------------------------
\* put followed by get with the ETag put returned

\* get(resource, etag) called with the value the put before it resolved with.
GetWithReturned ==
    /\ calls # <<>>
    /\ calls[Len(calls)].op = "put"
    /\ result.kind = "resolved"
    /\ GetBegins(result.val)

InitETag == InitPut

NextETag ==
    \/ \E content \in PutContents, h \in DirectPutHeaders : PutBegins(content, h)
    \/ /\ pc = "sent"
       /\ \E resp \in ObjectPutResponses(bucket, calls[Len(calls)]) : PutSettles(resp)
    \/ GetWithReturned
    \/ /\ pc = "getting"
       /\ \E resp \in GetAnswers(bucket, calls[Len(calls)]) : GetReturns(resp)

SpecETag == InitETag /\ [][NextETag]_vars

----------------------------------------------------------------------------
\* The log of calls, as the claims read it.

CallsOf(op) == {i \in DOMAIN calls : calls[i].op = op}

CallUploadId(c) == ParamGet(c.url, "uploadId")
CallPartNumber(c) == ParamGet(c.url, "partNumber")

\* The error the i-th call threw.
ThrownBy(i) ==
    LET c == calls[i]
    IN  IF ~ResponseOk(c.resp) THEN HttpError(c.resp, i)
        ELSE IF c.op \in {"part", "put"} THEN JSONparse(c.resp.etag).val
        ELSE IF c.op = "start" /\ Len(c.resp.body) = 0
        THEN <<"Error", "failed to start multi-part upload">>
        ELSE <<"Error", "xml">>

\* The upload-part calls that failed while #putStream held an upload ID.
FailedPartsOfSession ==
    {i \in CallsOf("part") :
        calls[i].state = "threw" /\ Truthy(CallUploadId(calls[i]))}

AbortsAfter(i) == {j \in CallsOf("abort") : j > i}

StartedSessions == {i \in CallsOf("start") : calls[i].state = "returned"}

CommitsOf(id) == {j \in CallsOf("commit") : CallUploadId(calls[j]) = id}
AbortsOf(id) == {j \in CallsOf("abort") : CallUploadId(calls[j]) = id}

\* C2: once put has settled, every session it started has a commit or an
\* abort call, at most one of each, and no abort after a commit the service
\* accepted.
C2_CommittedOrAbortedOnce ==
    pc = "done" =>
        \A i \in StartedSessions :
            /\ CommitsOf(SessionId(i)) \cup AbortsOf(SessionId(i)) # {}
            /\ Cardinality(CommitsOf(SessionId(i))) <= 1
            /\ Cardinality(AbortsOf(SessionId(i))) <= 1
            /\ \A c \in CommitsOf(SessionId(i)) : \A a \in AbortsOf(SessionId(i)) :
                  ~(ResponseOk(calls[c].resp) /\ a > c)

\* The upload-part calls of the session of upload ID `id` that succeeded
\* before call j.
PartsBefore(j, id) ==
    {i \in CallsOf("part") :
        i < j /\ calls[i].state = "returned" /\ CallUploadId(calls[i]) = id}

\* The ETag the upload-part call numbered k returned.
ETagOfPart(j, id, k) ==
    LET i == CHOOSE x \in PartsBefore(j, id) : CallPartNumber(calls[x]) = NumText(k)
    IN  JSONparse(calls[i].resp.etag).val

\* C3: the manifest of every commit call lists the part numbers 1..N in
\* ascending order, N the number of upload-part calls of the session that
\* succeeded, each with the ETag returned for that part number.
C3_ManifestIsOneToN ==
    \A j \in CallsOf("commit") :
        LET id == CallUploadId(calls[j])
            N == Cardinality(PartsBefore(j, id))
        IN  /\ \A k \in 1..N :
                  \E i \in PartsBefore(j, id) : CallPartNumber(calls[i]) = NumText(k)
            /\ calls[j].body =
                  <<(<<"CompleteMultipartUpload">>)>> \o
                  [k \in 1..N |->
                      <<"Part", "ETag", ETagOfPart(j, id, k), "PartNumber", k>>]

\* C3 witness: a commit call is issued with three parts.
C3_Witness ==
    \E j \in CallsOf("commit") : Len(calls[j].body) = 4

\* The bytes of the stream so far, in delivery order.
Delivered == [i \in 1..total |-> i]

\* C4: when a stream of at most MIN_CHUNK_SIZE bytes has ended, put has issued
\* one call only, the PUT a direct put of the concatenated chunks with the
\* caller's headers issues, and settles as that direct put does.
C4_SmallStreamIsDirectPut ==
    (pc \in {"put", "done"} /\ total <= MIN_CHUNK_SIZE /\ err = <<>>) =>
        /\ Len(calls) = 1
        /\ calls[1].op = "put"
        /\ calls[1].method = "PUT"
        /\ calls[1].url = Url(Name)
        /\ calls[1].body = Delivered
        /\ calls[1].hdrs = PutCall(given, Delivered, 1).hdrs
        /\ pc = "done" => result = PutResult(calls[1].resp, 1)

\* C4 witness: a stream of exactly MIN_CHUNK_SIZE bytes in several chunks was
\* put and the put resolved.
C4_Witness ==
    /\ pc = "done"
    /\ total = MIN_CHUNK_SIZE
    /\ maxChunk < MIN_CHUNK_SIZE
    /\ result.kind = "resolved"
    /\ CallsOf("put") # {}

\* A stream of 3.5 x MIN_CHUNK_SIZE bytes.
LargeStream == 2 * total = 7 * MIN_CHUNK_SIZE

\* C5 as claimed: for a stream of 3.5 x MIN_CHUNK_SIZE bytes, whatever its
\* chunks, a commit call is only issued after at least 4 parts were uploaded.
C5_AtLeastFourParts ==
    LargeStream =>
        /\ pc \notin {"read", "start"} \/ err # <<>> \/ CallsOf("start") # {}
        /\ \A j \in CallsOf("commit") :
              Cardinality(PartsBefore(j, CallUploadId(calls[j]))) >= 4

\* C5 as amended: for a stream of 3.5 x MIN_CHUNK_SIZE bytes whose chunks are
\* each shorter than MIN_CHUNK_SIZE / 6, a multipart session was started and a
\* commit call is only issued after at least 4 parts were uploaded.
C5_FourPartsOfSmallChunks ==
    (LargeStream /\ 6 * maxChunk < MIN_CHUNK_SIZE) =>
        /\ CallsOf("start") # {}
        /\ \A j \in CallsOf("commit") :
              Cardinality(PartsBefore(j, CallUploadId(calls[j]))) >= 4

\* C5 witness: such a stream of small chunks was committed.
C5_Witness ==
    /\ LargeStream
    /\ 6 * maxChunk < MIN_CHUNK_SIZE
    /\ pc = "done"
    /\ result.kind = "resolved"
    /\ CallsOf("commit") # {}

\* The abort calls that failed right after a part upload or the commit failed.
DoubleFailures ==
    {j \in CallsOf("abort") :
        /\ calls[j].state = "threw"
        /\ calls[j - 1].op \in {"part", "commit"}
        /\ calls[j - 1].state = "threw"}

\* C6: when a part upload or the commit fails and the abort that follows
\* fails too, put is rejected with an aggregate error holding both errors.
C6_BothErrorsSurface ==
    \A j \in DoubleFailures :
        /\ pc = "done"
        /\ result = Rejected(<<"AggregateError", ThrownBy(j - 1), ThrownBy(j)>>)

\* C6 witness: the commit failed and so did the abort.
C6_Witness ==
    \E j \in DoubleFailures : calls[j - 1].op = "commit"

\* The items of the pages 1..n of the listing, in order.
RECURSIVE ItemsUpTo(_)
ItemsUpTo(n) == IF n = 0 THEN <<>> ELSE ItemsUpTo(n - 1) \o pages[n]

\* The token the service returned with the page that answered call i.
TokenReturned(i) == calls[i].resp.body[3]

\* C7: list pages through the continuation tokens: over a listing of P pages
\* it issues at most P requests (exactly P once it has ended), each request
\* after the first carries the token returned with the page before, the items
\* of a page are all yielded before the next request, no item is yielded
\* twice, and it ends having yielded every item.
C7_PagesThroughTokens ==
    (\A i \in CallsOf("list") : calls[i].resp.status \in {0, 200}
                                /\ (calls[i].state = "pending" \/ Len(calls[i].resp.body) > 0))
    => /\ Cardinality(CallsOf("list")) <= Len(pages)
       /\ \A i \in CallsOf("list") :
             i > 1 => ParamGet(calls[i].url, "continuation-token") = TokenReturned(i - 1)
       /\ pc \in {"list", "listing"} => listItems = <<>>
       /\ \A i, j \in DOMAIN yielded : yielded[i] = yielded[j] => i = j
       /\ pc = "done" => /\ Cardinality(CallsOf("list")) = Len(pages)
                         /\ yielded = ItemsUpTo(Len(pages))

\* The key held an object when call i was issued.
ExistedBefore(i) == \E j \in 1..(i - 1) : ResponseOk(calls[j].resp)

\* C8 as stated: every put request carries exactly one precondition, If-Match
\* with the caller's expected ETag or else If-None-Match: *, and a put without
\* an expected ETag onto an existing key fails and leaves the object as it was.
C8_ExactlyOnePrecondition ==
    Len(calls) > 0 =>
        LET call == calls[Len(calls)]
        IN  /\ call.op = "put"
            /\ IF Has(given, "If-Match")
               THEN /\ Has(call.hdrs, "If-Match")
                    /\ call.hdrs["If-Match"] = given["If-Match"]
                    /\ ~Has(call.hdrs, "If-None-Match")
               ELSE /\ ~Has(call.hdrs, "If-Match")
                    /\ Has(call.hdrs, "If-None-Match")
                    /\ call.hdrs["If-None-Match"] = <<"*">>
            /\ (~Has(given, "If-Match") /\ ExistedBefore(Len(calls)))
               => call.state # "returned"

\* C8: a put request carries If-Match, with the caller's value, exactly when
\* the caller gives one, and never If-None-Match; so the service refuses no put
\* made without an expected ETag, and such a put onto an existing key, once it
\* has returned, has replaced the stored object.
C8_PreconditionOnlyWhenGiven ==
    Len(calls) > 0 =>
        LET call == calls[Len(calls)]
        IN  /\ call.op = "put"
            /\ ~Has(call.hdrs, "If-None-Match")
            /\ IF Has(given, "If-Match")
               THEN Has(call.hdrs, "If-Match") /\ call.hdrs["If-Match"] = given["If-Match"]
               ELSE ~Has(call.hdrs, "If-Match")
            /\ ~Has(given, "If-Match") => call.resp.status # 412
            /\ (~Has(given, "If-Match") /\ call.state = "returned")
               => bucket = <<Stored(call.body)>>

\* A put without an expected ETag has returned after replacing the object an
\* earlier put stored.
C8_Witness ==
    /\ Len(calls) = 2
    /\ calls[1].state = "returned"
    /\ calls[2].state = "returned"
    /\ ~Has(given, "If-Match")
    /\ calls[1].body # calls[2].body
    /\ bucket = <<Stored(calls[2].body)>>

\* C9: #request resolves only when the service's own response to the request
\* issued has a 2xx status and rejects for every other; a redirect is never
\* followed.
C9_ResolvesOnOwn2xx ==
    \A i \in DOMAIN exchanges :
        LET x == exchanges[i]
        IN  /\ Len(x.hops) <= 1
            /\ x.state = "resolved" => ResponseOk(x.hops[1])
            /\ (x.state # "pending" /\ ~ResponseOk(x.hops[1])) => x.state = "rejected"

\* The header name of a line of the canonical string: what precedes its
\* first colon.
RECURSIVE LineName(_)
LineName(line) ==
    IF line = <<>> \/ Head(line) = ":" THEN <<>>
    ELSE <<Head(line)>> \o LineName(Tail(line))

\* The names of the mapping under signing that are vendor headers.
VendorNames ==
    {n \in DOMAIN hdrs :
        /\ StartsWith(ToLowerCase(Chars(n)), Chars("x-amz"))
        /\ ToLowerCase(Chars(n)) # Chars("x-amz-date")}

\* C10: the vendor-header lines are exactly the headers whose lowercased name
\* starts with x-amz, x-amz-date excepted, and they are in the lexicographic
\* order of their lowercased names.
C10_VendorLinesByName ==
    pc = "signed" =>
        /\ Len(canonical) = Cardinality(VendorNames)
        /\ {canonical[i] : i \in DOMAIN canonical}
           = {ToLowerCase(Chars(n)) \o <<":">> \o hdrs[n] : n \in VendorNames}
        /\ \A i, j \in DOMAIN canonical :
              i < j => ~TextLess(LineName(canonical[j]), LineName(canonical[i]))

\* The resource string under the signature of a call.
SignedResource(call) == call.hdrs["Authorization"][2][7]

\* The parameter names in a resource string: what follows a `?` or a `&`.
ResourceNames(res) ==
    {res[i + 1] : i \in {j \in 1..(Len(res) - 1) : res[j] \in {<<"?">>, <<"&">>}}}

\* C11: a parameter of the request URL whose name is outside the fixed list
\* is not in the signed resource string and is in the URL sent; every
\* parameter of the URL whose name is in the list is in the resource string.
C11_OnlyListedParamsSigned ==
    \A c \in DOMAIN calls :
        LET q == given.query
            res == SignedResource(calls[c])
        IN  calls[c].op = "request" =>
            /\ calls[c].url = given
            /\ \A i \in DOMAIN q :
                  IF q[i][1] \in AWSParams
                  THEN <<q[i][1]>> \in ResourceNames(res)
                  ELSE /\ <<q[i][1]>> \notin ResourceNames(res)
                       /\ HasParam(calls[c].url.query, q[i][1])

\* A request whose URL has a parameter of the list and one outside it.
C11_Witness ==
    /\ Len(calls) = 1
    /\ calls[1].op = "request"
    /\ \E i, j \in DOMAIN given.query :
          /\ given.query[i][1] \in AWSParams
          /\ given.query[j][1] \notin AWSParams
    /\ Len(SignedResource(calls[1])) > 1

\* The last head call on a key that has returned, 0 when there is none.
HeadOf(key) ==
    LET done == {i \in CallsOf("head") :
                    calls[i].url.path = key /\ calls[i].state = "returned"}
    IN  IF done = {} THEN 0 ELSE CHOOSE i \in done : \A j \in done : j <= i

\* C12: copy called with the target key first and an existing source key
\* second asks the service to write the first key from the second; a head of
\* the first key then yields the ETag copy returned, and the second key's
\* object is as it was.
C12_CopyTargetFirst ==
    (/\ Len(calls) > 0
     /\ calls[1].op = "copy"
     /\ given.first # given.second
     /\ given.before[given.second] # <<>>)
    => /\ calls[1].url.path = given.first
       /\ SourceKey(calls[1].hdrs["x-amz-copy-source"]) = given.second
       /\ calls[1].state # "threw" \/ ~ResponseOk(calls[1].resp)
       /\ (calls[1].state = "returned" /\ HeadOf(given.first) # 0)
          => JSONparse(calls[HeadOf(given.first)].resp.etag).val = result.val
       /\ bucket[given.second] = given.before[given.second]

\* C13: copy rejects whenever the service answers 2xx with a body that has
\* no ETag node, the empty body included, and returns no value then.
C13_CopyWithoutETagRejects ==
    \A i \in CallsOf("copy") :
        (/\ calls[i].state # "pending"
         /\ ResponseOk(calls[i].resp)
         /\ XmlText(calls[i].resp.body, "CopyObjectResult", "ETag") = Undefined)
        => calls[i].state = "threw" /\ result.kind = "rejected"

\* C14: a get that is given an ETag carries it as If-None-Match, and a get
\* the service answers 304 resolves to null.
C14_NotModifiedIsNull ==
    (Len(calls) > 0 /\ calls[Len(calls)].op = "get") =>
        LET call == calls[Len(calls)]
        IN  /\ Truthy(given) => /\ Has(call.hdrs, "If-None-Match")
                                /\ call.hdrs["If-None-Match"] = given
            /\ (call.state # "pending" /\ call.resp.status = 304)
               => call.state = "returned" /\ result = Resolved(Null)

\* An upload-part call of the put under way has failed.
PartFailed == \E i \in CallsOf("part") : calls[i].state = "threw"

\* C15: once an upload-part call has failed, no step takes a chunk from the
\* input stream and no step issues a call other than the abort.
C15_NothingAfterPartFailure ==
    [][PartFailed =>
          /\ total' = total
          /\ nEmpty' = nEmpty
          /\ \A i \in (DOMAIN calls') \ (DOMAIN calls) : calls'[i].op = "abort"
          /\ Cardinality(CallsOf("abort")) = 1 => Len(calls') = Len(calls)]_vars

\* The second part has failed while the stream had more to give, and the
\* abort has been answered.
C15_Witness ==
    /\ PartFailed
    /\ Len(parts) = 1
    /\ total < MaxTotal
    /\ Cardinality(CallsOf("abort")) = 1
    /\ pc = "done"

\* The upload ID a start call returned: the UploadId text of its response.
IdReturned(i) ==
    XmlText(calls[i].resp.body, "InitiateMultipartUploadResult", "UploadId")

\* C16: start-multipart is issued at most once, as the first call and with
\* more than MIN_CHUNK_SIZE buffered; it has completed before any other call,
\* and every upload-part, commit and abort call carries the upload ID it
\* returned, whatever the start response was.
C16_OneStartOneId ==
    /\ Cardinality(CallsOf("start")) <= 1
    /\ \A i \in CallsOf("start") :
          /\ i = 1
          /\ calls[i].state = "pending" => ThresholdExceeded(length)
          /\ Len(calls) > 1 => calls[i].state = "returned"
    /\ \A i \in CallsOf("part") \cup CallsOf("commit") \cup CallsOf("abort") :
          /\ 1 \in CallsOf("start")
          /\ IdReturned(1) # Undefined
          /\ ParamGet(calls[i].url, "uploadId") = IdReturned(1)

\* The upload-part calls that succeeded.
PartsAccepted == {i \in CallsOf("part") : calls[i].state = "returned"}

\* The bodies of the parts numbered 1..n, joined in that order.
RECURSIVE PartBodies(_)
PartBodies(n) ==
    IF n = 0 THEN <<>>
    ELSE PartBodies(n - 1)
         \o calls[CHOOSE i \in PartsAccepted :
                     CallPartNumber(calls[i]) = NumText(n)].body

\* The bytes put of a stream has handed to the service.
BytesHanded ==
    IF CallsOf("put") # {}
    THEN calls[CHOOSE i \in CallsOf("put") : TRUE].body
    ELSE PartBodies(Cardinality(PartsAccepted))

\* C17: when put of a stream has resolved, the bytes handed to the service,
\* the bodies of the parts in part-number order or the body of the single PUT,
\* are the chunks of the stream joined in delivery order.
C17_BytesArePreserved ==
    (pc = "done" /\ result.kind = "resolved") =>
        /\ \A i \in PartsAccepted :
              \E n \in 1..Cardinality(PartsAccepted) :
                  CallPartNumber(calls[i]) = NumText(n)
        /\ \A i, j \in PartsAccepted :
              CallPartNumber(calls[i]) = CallPartNumber(calls[j]) => i = j
        /\ Cardinality(CallsOf("put")) <= 1
        /\ CallsOf("put") # {} => CallsOf("part") = {}
        /\ BytesHanded = Delivered

\* A multipart put has resolved whose last part is a remainder of less than
\* MIN_CHUNK_SIZE bytes and whose stream came in chunks smaller than a part.
C17_Witness ==
    /\ pc = "done"
    /\ result.kind = "resolved"
    /\ Len(parts) >= 2
    /\ maxChunk < MIN_CHUNK_SIZE
    /\ \E i \in PartsAccepted :
          /\ CallPartNumber(calls[i]) = NumText(Len(parts))
          /\ Len(calls[i].body) < MIN_CHUNK_SIZE

\* C18: when the commit call is answered 2xx with a response that has no
\* ETag node, put of a stream ends rejected; it never resolves with an
\* undefined ETag.
C18_CommitWithoutETagFails ==
    /\ result # Resolved(Undefined)
    /\ \A i \in CallsOf("commit") :
          (/\ pc = "done"
           /\ ResponseOk(calls[i].resp)
           /\ XmlText(calls[i].resp.body, "CompleteMultipartUploadResult", "ETag")
              = Undefined)
          => result.kind = "rejected"

\* C19: the mapping the caller passed is, once put has returned, as it was
\* when it was passed, and each request carries Content-MD5 and Content-Length
\* only of its own body.
C19_HeadersFreshPerCall ==
    /\ (pc = "idle" /\ Len(calls) > 0) => hdrs = given
    /\ \A i \in CallsOf("put") :
          /\ Has(calls[i].hdrs, "Content-MD5")
             => Len(calls[i].body) > 0 /\ calls[i].hdrs["Content-MD5"] = MD5(calls[i].body)
          /\ Has(calls[i].hdrs, "Content-Length")
             => Len(calls[i].body) > 0
                /\ calls[i].hdrs["Content-Length"] = NumText(Len(calls[i].body))

\* A text with every run of slashes collapsed to one slash.
RECURSIVE CollapseSlashes(_)
CollapseSlashes(t) ==
    IF t = <<>> THEN <<>>
    ELSE IF Head(t) = Slash
    THEN <<Slash>> \o CollapseSlashes(DropSlashes(Tail(t)))
    ELSE <<Head(t)>> \o CollapseSlashes(Tail(t))

\* A text that ends with exactly one slash.
WithTrailingSlash(t) ==
    IF t # <<>> /\ t[Len(t)] = Slash THEN t ELSE t \o <<Slash>>

\* The prefix list was given is one: neither absent nor empty.
PrefixGiven == Truthy(given.prefix)

\* The prefix a list request sends is the given one, slashes collapsed and
\* one slash at its end.
PrefixSentCollapsed ==
    \A i \in CallsOf("list") :
        PrefixGiven =>
            ParamGet(calls[i].url, "prefix")
            = WithTrailingSlash(CollapseSlashes(given.prefix))

\* C20: every request of list carries delimiter=/, whatever the prefix, and
\* when a prefix is given the prefix it carries is the given one with
\* repeated slashes collapsed and exactly one trailing slash.
C20_DelimiterAlways ==
    /\ \A i \in CallsOf("list") : ParamGet(calls[i].url, "delimiter") = <<Slash>>
    /\ PrefixSentCollapsed

\* C21: the value put returns is the ETag without its quotes, and a get that
\* is handed that value sends, as If-None-Match, the quoted ETag header the
\* service returned for the put.
C21_QuotedOnTheWire ==
    \A i \in DOMAIN calls :
        /\ (calls[i].op = "put" /\ calls[i].state = "returned" /\ i = Len(calls))
               => /\ Quote(result.val) = calls[i].resp.etag
                  /\ ~IsQuoted(result.val)
        /\ (i > 1 /\ calls[i].op = "get" /\ calls[i - 1].op = "put")
               => /\ Has(calls[i].hdrs, "If-None-Match")
                  /\ calls[i].hdrs["If-None-Match"] = calls[i - 1].resp.etag

\* The names of the fixed list in the order of their code units.
ParamNameOrder ==
    <<"acl", "lifecycle", "location", "logging", "notification", "partNumber",
      "policy", "requestPayment", "uploadId", "uploads", "versionId",
      "versioning", "versions", "website">>

NameRank(n) == CHOOSE i \in DOMAIN ParamNameOrder : ParamNameOrder[i] = n

\* C22: the parameters of the signed resource string are in the order of
\* their names, whatever order they have in the request URL.
C22_SignedParamsSorted ==
    \A c \in DOMAIN calls :
        LET res == SignedResource(calls[c])
            seps == {j \in 1..(Len(res) - 1) : res[j] \in {<<"?">>, <<"&">>}}
        IN  calls[c].op = "request" =>
            \A j1, j2 \in seps :
                j1 < j2 => NameRank(res[j1 + 1][1]) <= NameRank(res[j2 + 1][1])

\* The part calls sent after the i-th call.
LaterParts(i) == {j \in CallsOf("part") : j > i}

\* C23: every part uploaded holds at least one byte, and every part that
\* another part follows holds more than MIN_CHUNK_SIZE bytes, whatever the
\* lengths of the chunks.
C23_PartsAboveThreshold ==
    \A i \in CallsOf("part") :
        /\ Len(calls[i].body) > 0
        /\ LaterParts(i) # {} => Len(calls[i].body) > MIN_CHUNK_SIZE

\* A committed upload of a stream that delivered an empty chunk: three
\* parts, one of them a byte above the threshold, the last below it.
C23_Witness ==
    /\ pc = "done"
    /\ result.kind = "resolved"
    /\ nEmpty > 0
    /\ Cardinality(CallsOf("part")) = 3
    /\ \E i \in CallsOf("part") : Len(calls[i].body) = MIN_CHUNK_SIZE + 1
    /\ \E i \in CallsOf("part") :
          /\ LaterParts(i) = {}
          /\ Len(calls[i].body) < MIN_CHUNK_SIZE
    /\ \E i \in CallsOf("commit") : calls[i].state = "returned"

\* #putStream has thrown out of its try block with no session started: the
\* stream threw while the chunks were buffered, or the start call threw.
FailedBeforeSession ==
    /\ pc = "done"
    /\ err # <<>>
    /\ StartedSessions = {}

\* C24: when put of a stream fails before a session is started, the calls
\* made are at most the start call that failed (no abort, part, commit or
\* PUT), and put is rejected with the error of the stream or of the start
\* call as it was thrown.
C24_FailureBeforeSession ==
    FailedBeforeSession =>
        /\ Len(calls) <= 1
        /\ \A i \in DOMAIN calls : calls[i].op = "start" /\ calls[i].state = "threw"
        /\ err = IF calls = <<>> THEN <<"StreamError">> ELSE ThrownBy(1)
        /\ result = Rejected(err)

\* The start call of a stream that had crossed the threshold was refused
\* and put has settled.
C24_Witness ==
    /\ FailedBeforeSession
    /\ Len(calls) = 1
    /\ calls[1].op = "start"
    /\ ~ResponseOk(calls[1].resp)
    /\ length > MIN_CHUNK_SIZE
    /\ result.kind = "rejected"

\* The calls in flight.
Outstanding == {i \in DOMAIN calls : calls[i].state = "pending"}

\* Every call is sent after the calls before it have settled, the ETag of
\* every part that returned is recorded, a part carries the number after
\* those recorded, a commit follows parts that have all returned, and the
\* buffer holds at most the threshold and one chunk.
OneCallAtATime ==
    /\ Cardinality(Outstanding) <= 1
    /\ \A i \in Outstanding : i = Len(calls)
    /\ Len(parts) = Cardinality(PartsAccepted)
    /\ \A i \in CallsOf("part") :
          CallPartNumber(calls[i]) =
              NumText(Cardinality({j \in PartsAccepted : j < i}) + 1)
    /\ CallsOf("commit") # {} => CallsOf("part") = PartsAccepted
    /\ length <= MIN_CHUNK_SIZE + maxChunk

\* The stream hands over a chunk only when no call is in flight.
ReadsBetweenCalls ==
    (total' # total \/ nEmpty' # nEmpty) => Outstanding = {}

\* C25: within one put of a stream at most one call is in flight; part k+1
\* is sent after the ETag of part k is recorded, the stream is not advanced
\* while a call is in flight, the commit is sent after every part has
\* returned, and the bytes buffered never exceed MIN_CHUNK_SIZE plus one chunk.
C25_OneCallOutstanding == []OneCallAtATime /\ [][ReadsBetweenCalls]_vars

\* The second part is in flight with the first one recorded, and the
\* stream stands where the flush left it.
C25_Witness ==
    /\ pc = "part"
    /\ Len(parts) = 1
    /\ Outstanding = {Len(calls)}
    /\ calls[Len(calls)].op = "part"
    /\ CallPartNumber(calls[Len(calls)]) = NumText(2)
    /\ length = 0

====
